---- MODULE Spec2Model ----
(***************************************************************************)
(* Presence-aware message relay of collab-studio.                          *)
(*                                                                         *)
(*   Redis          the presence directory actor   (veda/src/addr/rs.rs)   *)
(*   RedisSession   one delivery worker per Online (veda/src/addr/rs.rs)   *)
(*   WinSocketSession  the session endpoint  (collab-studio/src/session.rs)*)
(*                                                                         *)
(* The log store (redis) is modelled by the keys the program reads: the   *)
(* hash "online-users" and the streams "stream-messages:<name>".  The      *)
(* hashes "platforms:<name>" are written next to "online-users" and never  *)
(* read; they are left out.  Every store call can fail.                    *)
(* Time is counted in seconds.                                             *)
(***************************************************************************)
EXTENDS Integers, Sequences, FiniteSets, TLC

\* ------------------------------------------------------------------ bounds
MaxWorkers == 2      \* Online commands handled (each starts one RedisSession)
MaxEntries == 2      \* entries appended to the streams by Trial
MaxTicks == 3        \* heartbeat intervals the clock may advance
DrainN == 11         \* entries injected in the drain scenario

\* ------------------------------------------------------- program constants
HEARTBEAT_INTERVAL == 60
CLIENT_TIMEOUT == 120
Count == 10

\* ------------------------------------------------------------------ values
Sessions == {1, 2}                 \* session actors; Connect assigns s to s
Names == {"alice", "bob"}
Workers == 1..MaxWorkers
None == "none"
InitialId == 0                     \* WinSocketSession.id before Connect resolves

Event(s, a, o) == [subject |-> s, act |-> a, object |-> o]
Events == {Event("a", "x", "1")}

\* Trial.message: a text that serde_json either decodes as an Event or not
Messages == [json : {TRUE}, event : Events] \cup {[json |-> FALSE, event |-> Event("", "", "")]}
ReceiverLists == {<<"alice">>, <<"bob">>, <<"alice", "bob">>}

Range(q) == {q[i] : i \in 1..Len(q)}
Min(a, b) == IF a < b THEN a ELSE b
Remove(f, k) == [x \in DOMAIN f \ {k} |-> f[x]]
Put(f, k, v) == [x \in DOMAIN f \cup {k} |-> IF x = k THEN v ELSE f[x]]

VARIABLES
    \* the store
    onlineUsers,   \* hash "online-users": session id -> name
    stream,        \* streams "stream-messages:<name>": name -> sequence of entries
    nextId,        \* the next store-assigned entry id ("*")
    \* Redis (the directory)
    redisAlive,    \* FALSE once a handler has panicked
    sessions,      \* Redis.sessions: session id -> worker
    dirQ,          \* the directory's mailbox (commands of the sessions, in order)
    \* RedisSession (the workers)
    nworkers,      \* workers started so far
    wstate,        \* worker -> "unborn" | "running" | "waiting" | "stopped"
    wsess,         \* worker -> [id, name, addr]
    wmail,         \* workers with a RedisOffline in their mailbox
    fwd,           \* worker -> the batch sent to the endpoint and its outcome
    \* WinSocketSession (the endpoints)
    sstate,        \* session -> "connecting" | "registered" | "listing" | "stopped"
    id,            \* WinSocketSession.id
    identity,      \* WinSocketSession.identity
    hb,            \* WinSocketSession.hb (instant of the last ping or pong)
    now,           \* the clock
    \* history
    fwdOrder,      \* name -> entry ids in the order of their first delivery
    injected,      \* entry id -> the Event that Trial was given for it
    expired,       \* the sessions that the heartbeat check has stopped
    reply,         \* the last Trial and what it returned to its caller
    out,           \* session -> the texts its last client frame made it write
    patients       \* the PatientRequests the sessions have sent to the server

storeVars == <<onlineUsers, stream, nextId>>
dirVars == <<redisAlive, sessions, dirQ>>
workerVars == <<nworkers, wstate, wsess, wmail, fwd>>
sessionVars == <<sstate, id, identity, hb, now>>
histVars == <<fwdOrder, injected, expired, reply, out, patients>>
vars == <<storeVars, dirVars, workerVars, sessionVars, histVars>>

NoBatch == [ids |-> <<>>, items |-> <<>>, res |-> "none"]
NoSess == [id |-> InitialId, name |-> None, addr |-> 0]
\* no Trial has been handled
NoReply == [returned |-> FALSE, events |-> <<>>, json |-> FALSE, receivers |-> <<>>]

Init ==
    /\ onlineUsers = <<>>
    /\ stream = [n \in Names |-> <<>>]
    /\ nextId = 1
    /\ redisAlive = TRUE
    /\ sessions = <<>>
    /\ dirQ = <<>>
    /\ nworkers = 0
    /\ wstate = [w \in Workers |-> "unborn"]
    /\ wsess = [w \in Workers |-> NoSess]
    /\ wmail = {}
    /\ fwd = [w \in Workers |-> NoBatch]
    /\ sstate = [s \in Sessions |-> "connecting"]
    /\ id = [s \in Sessions |-> InitialId]
    /\ identity = [s \in Sessions |-> None]
    /\ hb = [s \in Sessions |-> 0]
    /\ now = 0
    /\ fwdOrder = [n \in Names |-> <<>>]
    /\ injected = <<>>
    /\ expired = {}
    /\ reply = NoReply
    /\ out = [s \in Sessions |-> <<>>]
    /\ patients = {}

\* =================================================================== store
\* XADD key * field value ...: appends an entry under the next id
XAdd(log, n, fields) == Append(log, [id |-> n, map |-> fields])
\* an xdel that removes the first id of the list only
XDelFirst(log, ids) == SelectSeq(log, LAMBDA e : e.id \notin {ids[k] : k \in DOMAIN ids \cap {1}})
\* XDEL key id ...: removes the entries with these ids, absent ids are ignored
XDel(log, ids) == SelectSeq(log, LAMBDA e : e.id \notin Range(ids))
\* a read without COUNT
XReadAll(log) == log
\* a read from the end of the log instead of its start
XReadLast(log) == SubSeq(log, Len(log), Len(log))
\* XREAD COUNT 10 STREAMS key 0: the first entries of the log, at most Count
XRead(log) == SubSeq(log, 1, Min(Len(log), Count))
\* StreamId::get(field).unwrap_or_default()
Get(map, field) == IF field \in DOMAIN map THEN map[field] ELSE ""
\* the value under which an Event is written as one redis argument
EventArg(e) == <<e.subject, e.act, e.object>>
\* the field list Trial hands to xadd
TrialFields(e) == [f \in {"event"} |-> EventArg(e)]
\* the Event a worker builds from one stream entry
Decode(t) == Event(Get(t.map, "subject"), Get(t.map, "act"), Get(t.map, "object"))
\* serde_json::from_str::<Event>(&msg.message)
FromStr(m) == IF m.json THEN [ok |-> TRUE, event |-> m.event] ELSE [ok |-> FALSE, event |-> m.event]

\* =============================================================== directory
\* What the Redis handlers read and write, as one record.
Dir ==
    [alive |-> redisAlive, sessions |-> sessions, online |-> onlineUsers,
     mail |-> wmail, nworkers |-> nworkers, wstate |-> wstate, wsess |-> wsess]

OnlineFaults == [conn : BOOLEAN, hset : BOOLEAN]
OfflineFaults == [conn : BOOLEAN, hget : BOOLEAN, hdel : BOOLEAN]
NoFaultOnline == [conn |-> TRUE, hset |-> TRUE]
NoFaultOffline == [conn |-> TRUE, hget |-> TRUE, hdel |-> TRUE]

\* Handler<Online>: f says which store calls succeed
OnlineHandle(d, msg, f) ==
    IF ~f.conn THEN [d EXCEPT !.alive = FALSE]      \* expect() panics
    ELSE LET w == d.nworkers + 1 IN
         [d EXCEPT !.online = IF f.hset THEN Put(@, msg.id, msg.name) ELSE @,
                   !.nworkers = w,
                   !.wstate[w] = "running",
                   !.wsess[w] = [id |-> msg.id, name |-> msg.name, addr |-> msg.addr],
                   !.sessions = Put(@, msg.id, w)]

\* an Offline that leaves the entry of the worker table in place
OfflineKeepsEntry(d, i, f) ==
    IF i \notin DOMAIN d.sessions THEN d
    ELSE LET w == d.sessions[i]
             d1 == [d EXCEPT !.mail = IF d.wstate[w] # "stopped" THEN @ \cup {w} ELSE @]
         IN  IF ~f.conn THEN [d1 EXCEPT !.alive = FALSE]
             ELSE IF f.hget /\ i \in DOMAIN d1.online
                  THEN [d1 EXCEPT !.online = IF f.hdel THEN Remove(@, i) ELSE @]
                  ELSE d1

\* Handler<Offline>
OfflineHandle(d, i, f) ==
    IF i \notin DOMAIN d.sessions THEN d
    ELSE LET w == d.sessions[i]
             d1 == [d EXCEPT !.mail = IF d.wstate[w] # "stopped" THEN @ \cup {w} ELSE @,
                             !.sessions = Remove(@, i)]
         IN  IF ~f.conn THEN [d1 EXCEPT !.alive = FALSE]   \* expect() panics
             ELSE IF f.hget /\ i \in DOMAIN d1.online
                  THEN [d1 EXCEPT !.online = IF f.hdel THEN Remove(@, i) ELSE @]
                  ELSE d1

SetDir(d) ==
    /\ redisAlive' = d.alive
    /\ sessions' = d.sessions
    /\ onlineUsers' = d.online
    /\ wmail' = d.mail
    /\ nworkers' = d.nworkers
    /\ wstate' = d.wstate
    /\ wsess' = d.wsess
    \* a panicked actor is dropped with its mailbox
    /\ dirQ' = IF d.alive THEN Tail(dirQ) ELSE <<>>

\* the directory takes the next command of its mailbox: an identity binding
RedisOnline(f) ==
    /\ redisAlive /\ dirQ # <<>> /\ Head(dirQ).type = "IdentitySession"
    /\ ~f.conn => f.hset                    \* hset is not reached
    /\ SetDir(OnlineHandle(Dir, Head(dirQ), f))
    /\ UNCHANGED <<stream, nextId, fwd, sessionVars, histVars>>

\* the directory takes the next command of its mailbox: a disconnect
RedisOffline(f) ==
    /\ redisAlive /\ dirQ # <<>> /\ Head(dirQ).type = "Disconnect"
    \* the calls that are not reached do not fail
    /\ Head(dirQ).id \notin DOMAIN sessions => f = NoFaultOffline
    /\ ~f.conn => f.hget
    /\ (~f.hget \/ Head(dirQ).id \notin DOMAIN onlineUsers) => f.hdel
    /\ SetDir(OfflineHandle(Dir, Head(dirQ).id, f))
    /\ UNCHANGED <<stream, nextId, fwd, sessionVars, histVars>>

\* Handler<Trial>: the appends of one Trial, receiver by receiver; fail is the
\* set of positions of msg.receivers whose xadd fails
RECURSIVE TrialAppend(_, _, _, _, _)
TrialAppend(st, event, receivers, k, fail) ==
    IF k > Len(receivers) THEN st
    ELSE IF k \in fail THEN TrialAppend(st, event, receivers, k + 1, fail)
    ELSE TrialAppend(
            [log |-> [st.log EXCEPT ![receivers[k]] = XAdd(@, st.next, TrialFields(event))],
             next |-> st.next + 1,
             events |-> Append(st.events, st.next)],
            event, receivers, k + 1, fail)

TrialHandle(st, msg, fail) ==
    LET event == FromStr(msg.message) IN
    IF event.ok THEN TrialAppend(st, event.event, msg.receivers, 1, fail) ELSE st

Trial(message, receivers, conn, fail) ==
    /\ redisAlive
    /\ fail \subseteq (IF conn /\ FromStr(message).ok THEN 1..Len(receivers) ELSE {})
    /\ IF ~conn
       THEN /\ redisAlive' = FALSE /\ dirQ' = <<>>
            \* the handler panics: the caller gets no Vec<String>
            /\ reply' = [returned |-> FALSE, events |-> <<>>,
                          json |-> message.json, receivers |-> receivers]
            /\ UNCHANGED <<stream, nextId, injected>>
       ELSE LET r == TrialHandle([log |-> stream, next |-> nextId, events |-> <<>>],
                                 [message |-> message, receivers |-> receivers], fail)
            IN  /\ stream' = r.log
                /\ nextId' = r.next
                /\ reply' = [returned |-> TRUE, events |-> r.events,
                              json |-> message.json, receivers |-> receivers]
                /\ injected' = [e \in 1..(r.next - 1) |->
                                  IF e \in DOMAIN injected THEN injected[e]
                                  ELSE FromStr(message).event]
                /\ UNCHANGED <<redisAlive, dirQ>>
    /\ UNCHANGED <<onlineUsers, sessions, workerVars, sessionVars, fwdOrder, expired, out, patients>>

\* ================================================================= workers
\* the batch read_messages builds from the reply of xread
Batch(log) ==
    LET ids == XRead(log) IN
    [ids |-> [k \in 1..Len(ids) |-> ids[k].id],
     items |-> [k \in 1..Len(ids) |-> Decode(ids[k])],
     res |-> "pending"]

\* a tick of the interval that ignores the mailbox
TickAnyway(w) == wstate[w] = "running"
\* The interval of worker w may tick: the actor is running, its context is not
\* waiting for a send, and its mailbox, which is served first, is empty.
Tick(w) == wstate[w] = "running" /\ w \notin wmail

\* a continuation that stops the worker when xdel fails
ThenStopOnDeleteError(res, log, ids, del) ==
    [log |-> IF res = "ok" /\ del THEN XDel(log, ids) ELSE log, stop |-> res # "ok" \/ ~del]
\* One tick of run_interval: read_messages up to the send.  inf and ssr say
\* whether xinfo_stream and xread_options succeed.  The context then waits for
\* the send, so the worker takes no tick and no message until it resolves.
ReadMessages(w) ==
    /\ Tick(w)
    /\ Len(stream[wsess[w].name]) # 0
    /\ fwd' = [fwd EXCEPT ![w] = Batch(stream[wsess[w].name])]
    /\ wstate' = [wstate EXCEPT ![w] = "waiting"]
    /\ UNCHANGED <<storeVars, dirVars, nworkers, wsess, wmail, sessionVars, histVars>>

\* a tick that ends before the send: store error or empty stream
ReadNothing(w, inf, ssr) ==
    /\ Tick(w)
    /\ ~(inf /\ Len(stream[wsess[w].name]) # 0 /\ ssr)
    /\ (~inf \/ Len(stream[wsess[w].name]) = 0) => ssr      \* xread is not reached
    /\ UNCHANGED vars

\* a continuation that prunes the batch whatever the outcome of the send
ThenDeleteAlways(res, log, ids, del) ==
    [log |-> IF del THEN XDel(log, ids) ELSE log, stop |-> res # "ok"]
\* a continuation that keeps the worker polling after a failed send
ThenRetry(res, log, ids, del) ==
    [log |-> IF res = "ok" /\ del THEN XDel(log, ids) ELSE log, stop |-> FALSE]

\* what the continuation of the send does with the log: res is the outcome of
\* the send, del whether xdel succeeds
Then(res, log, ids, del) ==
    IF res = "ok"
    THEN [log |-> IF del THEN XDel(log, ids) ELSE log, stop |-> FALSE]
    ELSE [log |-> log, stop |-> TRUE]

\* the send has resolved: the worker runs the continuation
ForwardDone(w, del) ==
    /\ wstate[w] = "waiting" /\ fwd[w].res \in {"ok", "err"}
    /\ fwd[w].res = "err" => del                            \* xdel is not reached
    /\ LET r == Then(fwd[w].res, stream[wsess[w].name], fwd[w].ids, del) IN
       /\ stream' = [stream EXCEPT ![wsess[w].name] = r.log]
       /\ wstate' = [wstate EXCEPT ![w] = IF r.stop THEN "stopped" ELSE "running"]
       \* a stopped actor is dropped with its fields and its mailbox
       /\ wsess' = [wsess EXCEPT ![w] = IF r.stop THEN NoSess ELSE @]
       /\ wmail' = IF r.stop THEN wmail \ {w} ELSE wmail
       \* the batch of a failed send is kept here, for the record
       /\ fwd' = [fwd EXCEPT ![w] = IF r.stop THEN @ ELSE NoBatch]
    /\ UNCHANGED <<onlineUsers, nextId, dirVars, nworkers, sessionVars, histVars>>

\* Handler<RedisOffline> for RedisSession: ctx.stop()
HandleRedisOffline(w) ==
    /\ wstate[w] = "running" /\ w \in wmail
    /\ wstate' = [wstate EXCEPT ![w] = "stopped"]
    /\ wsess' = [wsess EXCEPT ![w] = NoSess]
    /\ wmail' = wmail \ {w}
    /\ UNCHANGED <<storeVars, dirVars, nworkers, fwd, sessionVars, histVars>>

\* ================================================================ sessions
Alive(s) == sstate[s] # "stopped"
\* a session that takes frames while a /list request is outstanding
ReadyWhileListing(s) == sstate[s] \in {"registered", "listing"}
\* a session that takes frames before its Connect request has resolved
ReadyAtOnce(s) == sstate[s] \in {"connecting", "registered"}
\* The context of session s serves its events (client frames, heartbeat
\* ticks, messages of workers): it is not paused by a wait(ctx) on Connect
\* or ListNames.
Ready(s) == sstate[s] = "registered"

\* do_send to the directory: lost when the directory is gone
Send(m) == dirQ' = IF redisAlive THEN Append(dirQ, m) ELSE dirQ
Disconnect(i) == [type |-> "Disconnect", id |-> i, name |-> None, addr |-> 0]
IdentitySession(i, n, s) == [type |-> "IdentitySession", id |-> i, name |-> n, addr |-> s]

\* The Connect request resolves with the id the directory assigned.
ConnectOk(s) ==
    /\ sstate[s] = "connecting"
    /\ sstate' = [sstate EXCEPT ![s] = "registered"]
    /\ id' = [id EXCEPT ![s] = s]
    /\ UNCHANGED <<storeVars, dirVars, workerVars, identity, hb, now, histVars>>

\* a stopping that tells the directory nothing
StoppingSilent(s, q) == q
\* Actor::stopping: the Disconnect every stop of the session sends
Stopping(s, q) == IF redisAlive THEN Append(q, Disconnect(id[s])) ELSE q

\* ctx.stop(): the actor stops and is dropped with its fields
Stop(s) ==
    /\ sstate' = [sstate EXCEPT ![s] = "stopped"]
    /\ id' = [id EXCEPT ![s] = InitialId]
    /\ identity' = [identity EXCEPT ![s] = None]
    /\ hb' = [hb EXCEPT ![s] = 0]

\* The Connect request fails: ctx.stop()
ConnectErr(s) ==
    /\ sstate[s] = "connecting"
    /\ Stop(s)
    /\ dirQ' = Stopping(s, dirQ)
    /\ UNCHANGED <<storeVars, redisAlive, sessions, workerVars, now, histVars>>

\* ws::Message::Ping and ws::Message::Pong
HandlePing(s) ==
    /\ Ready(s)
    /\ hb' = [hb EXCEPT ![s] = now]
    /\ UNCHANGED <<storeVars, dirVars, workerVars, sstate, id, identity, now, histVars>>

\* ----------------------------------------------------------- text frames
\* A text frame after trim() and splitn(2, ' '): cmd is v[0]; arg is v[1], or
\* None when the split gives one part.
Frame(cmd, arg) == [cmd |-> cmd, arg |-> arg]
\* the texts that start with '/'
Slash == {"/list", "/name", "/patient", "/who"}
\* a /patient payload that decodes as a PatientRequest, and one that does not
Payloads == {"{patient}", "{"}
\* /name and /patient without argument, an unknown command, plain text
Malformed == {Frame("/name", None), Frame("/patient", None), Frame("/who", None),
              Frame("/who", "x"), Frame("hello", None)}
NameRequired == "!!! name is required"
UnknownCommand == "!!! unknown command"

\* the session as a frame handler sees it
Sess(s) == [id |-> id[s], identity |-> identity[s], addr |-> s]
\* the outcome of a frame that changes nothing and sends nothing
Same(sess) ==
    [identity |-> sess.identity, dir |-> <<>>, patient |-> {}, client |-> <<>>,
     wait |-> FALSE, panic |-> FALSE]

\* a /name arm that binds whatever follows the command
NameCmdUnchecked(sess, arg) ==
    [Same(sess) EXCEPT !.identity = arg,
                       !.dir = <<IdentitySession(sess.id, arg, sess.addr)>>]
\* "/name"
NameCmd(sess, arg) ==
    IF arg # None
    THEN [Same(sess) EXCEPT !.identity = arg,
                            !.dir = <<IdentitySession(sess.id, arg, sess.addr)>>]
    ELSE [Same(sess) EXCEPT !.client = <<NameRequired>>]

\* "/patient": from_str(v[1]).unwrap() panics on a payload that does not decode
PatientCmd(sess, arg) ==
    IF arg # None
    THEN IF arg = "{patient}"
         THEN [Same(sess) EXCEPT !.patient = {[id |-> sess.id, addr |-> sess.addr,
                                               request_identity |-> sess.identity]}]
         ELSE [Same(sess) EXCEPT !.panic = TRUE]
    ELSE [Same(sess) EXCEPT !.client = <<NameRequired>>]

\* ws::Message::Text
Text(sess, m) ==
    IF m.cmd \in Slash
    THEN CASE m.cmd = "/list" -> [Same(sess) EXCEPT !.wait = TRUE]
           [] m.cmd = "/name" -> NameCmd(sess, m.arg)
           [] m.cmd = "/patient" -> PatientCmd(sess, m.arg)
           [] OTHER -> [Same(sess) EXCEPT !.client = <<UnknownCommand>>]
    ELSE [Same(sess) EXCEPT !.client = <<UnknownCommand>>]

\* Session s takes the outcome r of a text frame.  A panic ends the handler;
\* the actor is dropped, and its context stops it on the way (stopping runs).
Apply(s, r) ==
    IF r.panic
    THEN /\ Stop(s)
         /\ dirQ' = Stopping(s, dirQ)
         /\ UNCHANGED <<out, patients>>
    ELSE /\ identity' = [identity EXCEPT ![s] = r.identity]
         /\ sstate' = [sstate EXCEPT ![s] = IF r.wait THEN "listing" ELSE @]
         /\ IF r.dir = <<>> THEN dirQ' = dirQ ELSE Send(r.dir[1])
         /\ out' = [out EXCEPT ![s] = r.client]
         /\ patients' = patients \cup r.patient
         /\ UNCHANGED <<id, hb>>

\* text frame "/name v"
HandleName(s, v) ==
    /\ Ready(s)
    /\ nworkers + Cardinality({k \in 1..Len(dirQ) : dirQ[k].type = "IdentitySession"}) < MaxWorkers
    /\ Apply(s, Text(Sess(s), Frame("/name", v)))
    /\ UNCHANGED <<storeVars, redisAlive, sessions, workerVars, now,
                   fwdOrder, injected, expired, reply>>

\* a text frame that is no well-formed command
HandleNotice(s, m) ==
    /\ Ready(s)
    /\ Apply(s, Text(Sess(s), m))
    /\ UNCHANGED <<storeVars, redisAlive, sessions, workerVars, now,
                   fwdOrder, injected, expired, reply>>

\* text frame "/patient p"
HandlePatient(s, p) ==
    /\ Ready(s)
    /\ Apply(s, Text(Sess(s), Frame("/patient", p)))
    /\ UNCHANGED <<storeVars, redisAlive, sessions, workerVars, now,
                   fwdOrder, injected, expired, reply>>

\* text frame "/list": the context waits for the answer to ListNames
HandleList(s) ==
    /\ Ready(s)
    /\ Apply(s, Text(Sess(s), Frame("/list", None)))
    /\ UNCHANGED <<storeVars, redisAlive, sessions, workerVars, now,
                   fwdOrder, injected, expired, reply>>

\* the answers ListNames can give: the identities that are online, each once
ListNames ==
    LET on == {onlineUsers[i] : i \in DOMAIN onlineUsers}
    IN  {q \in UNION {[1..n -> Names] : n \in 0..Cardinality(Names)} : 
            Range(q) = on /\ Len(q) = Cardinality(on)}

\* The ListNames request resolves: ok with the names, or with an error.  The
\* session writes each name to the client and serves its events again.
ListDone(s, ok, names) ==
    /\ sstate[s] = "listing"
    /\ names \in (IF ok THEN ListNames ELSE {<<>>})
    /\ sstate' = [sstate EXCEPT ![s] = "registered"]
    /\ out' = [out EXCEPT ![s] = names]
    /\ UNCHANGED <<storeVars, dirVars, workerVars, id, identity, hb, now,
                   fwdOrder, injected, expired, reply, patients>>

\* Err(_), ws::Message::Close and ws::Message::Continuation: ctx.stop()
HandleStop(s) ==
    /\ Ready(s)
    /\ Stop(s)
    /\ dirQ' = Stopping(s, dirQ)
    /\ UNCHANGED <<storeVars, redisAlive, sessions, workerVars, now, histVars>>

\* the check of the heartbeat interval
TimedOut(s) == now - hb[s] > CLIENT_TIMEOUT

\* One tick of the heartbeat interval.  On a timeout the session sends
\* Disconnect, stops (and sends it again in stopping); otherwise it pings.
Hb(s) ==
    /\ Ready(s)
    /\ now % HEARTBEAT_INTERVAL = 0
    /\ IF TimedOut(s)
       THEN /\ Stop(s)
            /\ dirQ' = Stopping(s, IF redisAlive THEN Append(dirQ, Disconnect(id[s])) ELSE dirQ)
            /\ expired' = expired \cup {s}
       ELSE UNCHANGED <<sstate, id, identity, hb, dirQ, expired>>
    /\ UNCHANGED <<storeVars, redisAlive, sessions, workerVars, now, fwdOrder, injected, reply, out, patients>>

\* time passes
Advance ==
    /\ now < MaxTicks * HEARTBEAT_INTERVAL
    /\ now' = now + HEARTBEAT_INTERVAL
    /\ UNCHANGED <<storeVars, dirVars, workerVars, sstate, id, identity, hb, histVars>>

\* order, followed by the ids (all different) that are not in it yet
FirstSeen(order, ids) == order \o SelectSeq(ids, LAMBDA e : e \notin Range(order))

\* Handler<server::Message>: the session writes the batch of worker w to its
\* client, which resolves the worker's send with Ok
HandleMessage(w) ==
    /\ wstate[w] = "waiting" /\ fwd[w].res = "pending"
    /\ Ready(wsess[w].addr)
    /\ fwd' = [fwd EXCEPT ![w].res = "ok"]
    /\ fwdOrder' = [fwdOrder EXCEPT ![wsess[w].name] = FirstSeen(@, fwd[w].ids)]
    /\ UNCHANGED <<storeVars, dirVars, nworkers, wstate, wsess, wmail, sessionVars, injected, expired, reply, out, patients>>

\* the endpoint is gone: the worker's send resolves with an error
SendErr(w) ==
    /\ wstate[w] = "waiting" /\ fwd[w].res = "pending"
    /\ ~Alive(wsess[w].addr)
    /\ fwd' = [fwd EXCEPT ![w].res = "err"]
    /\ UNCHANGED <<storeVars, dirVars, nworkers, wstate, wsess, wmail, sessionVars, histVars>>

\* =========================================================== specification
Next ==
    \/ \E s \in Sessions : ConnectOk(s)
    \/ \E s \in Sessions : ConnectErr(s)
    \/ \E s \in Sessions : HandlePing(s)
    \/ \E s \in Sessions, v \in Names : HandleName(s, v)
    \/ \E s \in Sessions : HandleStop(s)
    \/ \E s \in Sessions : Hb(s)
    \/ \E f \in OnlineFaults : RedisOnline(f)
    \/ \E f \in OfflineFaults : RedisOffline(f)
    \/ \E m \in Messages, r \in ReceiverLists, c \in BOOLEAN, fail \in SUBSET (1..2) :
          nextId + Len(r) - 1 <= MaxEntries /\ Trial(m, r, c, fail)
    \/ \E w \in Workers : ReadMessages(w)
    \/ \E w \in Workers, inf \in BOOLEAN, ssr \in BOOLEAN : ReadNothing(w, inf, ssr)
    \/ \E w \in Workers, del \in BOOLEAN : ForwardDone(w, del)
    \/ \E w \in Workers : HandleRedisOffline(w)
    \/ \E w \in Workers : HandleMessage(w)
    \/ \E w \in Workers : SendErr(w)

Spec == Init /\ [][Next]_vars

\* The system with the clock running and nothing injected: sessions time out.
TimedNext ==
    \/ \E s \in Sessions : ConnectOk(s)
    \/ \E s \in Sessions : ConnectErr(s)
    \/ \E s \in Sessions : HandlePing(s)
    \/ \E s \in Sessions, v \in Names : HandleName(s, v)
    \/ \E s \in Sessions : HandleStop(s)
    \/ \E s \in Sessions : HandlePatient(s, "{")
    \/ \E s \in Sessions : Hb(s)
    \/ Advance
    \/ \E f \in OnlineFaults : RedisOnline(f)
    \/ \E f \in OfflineFaults : RedisOffline(f)
    \/ \E w \in Workers, inf \in BOOLEAN, ssr \in BOOLEAN : ReadNothing(w, inf, ssr)
    \/ \E w \in Workers : HandleRedisOffline(w)

TimedSpec == Init /\ [][TimedNext]_vars

\* The drain scenario: entries are injected for "alice" while she is offline,
\* then session 1 connects and declares "alice"; no store call fails and the
\* session stays connected.  The interval of a running worker keeps ticking
\* and every actor keeps handling its mailbox.
Offline1 == identity[1] = None
DrainTrial == \E m \in Messages : Offline1 /\ nextId <= DrainN /\ Trial(m, <<"alice">>, TRUE, {})
DrainName == Offline1 /\ HandleName(1, "alice")
\* time passes, and the client of session 1 is never silent for too long
DrainAdvance == now + HEARTBEAT_INTERVAL - hb[1] <= CLIENT_TIMEOUT /\ Advance
DrainNext ==
    \/ DrainTrial
    \/ DrainAdvance
    \/ ConnectOk(1)
    \/ DrainName
    \/ HandlePing(1)
    \/ Hb(1)
    \/ RedisOnline(NoFaultOnline)
    \/ \E w \in Workers : ReadMessages(w)
    \/ \E w \in Workers : ReadNothing(w, TRUE, TRUE)
    \/ \E w \in Workers : HandleMessage(w)
    \/ \E w \in Workers : ForwardDone(w, TRUE)

DrainFair ==
    /\ WF_vars(RedisOnline(NoFaultOnline))
    /\ \A w \in Workers :
          /\ WF_vars(ReadMessages(w))
          /\ WF_vars(HandleMessage(w))
          /\ WF_vars(ForwardDone(w, TRUE))

DrainSpec == Init /\ [][DrainNext]_vars /\ DrainFair

\* The sessions with every kind of client frame and a healthy store; the
\* clock stands still and nothing is injected.
FrameNext ==
    \/ \E s \in Sessions : ConnectOk(s)
    \/ \E s \in Sessions : ConnectErr(s)
    \/ \E s \in Sessions, v \in Names : HandleName(s, v)
    \/ \E s \in Sessions, m \in Malformed : HandleNotice(s, m)
    \/ \E s \in Sessions, p \in Payloads : HandlePatient(s, p)
    \/ \E s \in Sessions : HandleList(s)
    \/ \E s \in Sessions, ok \in BOOLEAN, names \in ListNames \cup {<<>>} : ListDone(s, ok, names)
    \/ \E s \in Sessions : HandleStop(s)
    \/ RedisOnline(NoFaultOnline)
    \/ RedisOffline(NoFaultOffline)
    \/ \E w \in Workers : HandleRedisOffline(w)

FrameSpec == Init /\ [][FrameNext]_vars

\* The drain scenario in which the client of session 1 may also go away at
\* any time: the directory stops the worker, or the worker's send fails.
BatchNext ==
    \/ DrainNext
    \/ HandleStop(1)
    \/ RedisOffline(NoFaultOffline)
    \/ \E w \in Workers : HandleRedisOffline(w)
    \/ \E w \in Workers : SendErr(w)

BatchSpec == Init /\ [][BatchNext]_vars

\* ================================================================== claims
Ids(log) == {e.id : e \in Range(log)}
Live(w) == wstate[w] \in {"running", "waiting"}
Forwarded == UNION {Range(fwdOrder[n]) : n \in Names}
InLog == UNION {Ids(stream[n]) : n \in Names}

\* C1: a step removes an entry from a log only if that entry was delivered to
\* a client before the step (its send resolved with Ok); polls, store errors,
\* failed sends and stop signals remove nothing else.
C1_DeleteOnlyForwarded ==
    [][\A n \in Names : Ids(stream[n]) \ Ids(stream'[n]) \subseteq Range(fwdOrder[n])]_vars

\* C1 witness: an entry was delivered and is gone from its log
C1_Witness == \E n \in Names : Range(fwdOrder[n]) \ Ids(stream[n]) # {}

\* C2: at any instant at most one delivery worker is alive per identity.
C2_OneWorkerPerIdentity ==
    \A n \in Names : Cardinality({w \in Workers : Live(w) /\ wsess[w].name = n}) <= 1

\* nothing is on its way: no command in the directory's mailbox, no stop
\* signal in a worker's mailbox, no send of a worker unresolved
Quiet == redisAlive /\ dirQ = <<>> /\ wmail = {} /\ \A w \in Workers : wstate[w] # "waiting"
Online(n) == \E i \in DOMAIN onlineUsers : onlineUsers[i] = n

\* C3: whenever nothing is on its way, an identity is listed in "online-users"
\* if and only if a delivery worker for it is alive.
C3_PresenceIffWorker ==
    Quiet => \A n \in Names : Online(n) <=> \E w \in Workers : Live(w) /\ wsess[w].name = n

Increasing(q) == \A i, j \in 1..Len(q) : i < j => q[i] < q[j]

\* C4: every entry that Trial appended is still in its log unless it has been
\* delivered, and for one identity the entries are delivered for the first
\* time in the order of their store ids (the append order): no entry is first
\* delivered after an entry appended later.
C4_StoreAndForwardOrder ==
    /\ 1..(nextId - 1) \subseteq InLog \cup Forwarded
    /\ \A n \in Names : Increasing(fwdOrder[n])
    /\ \A w \in Workers : Increasing(fwd[w].ids)

\* C4 witness: the first batch delivered for an identity holds two entries,
\* which were waiting in its log together
C4_Witness ==
    \E w \in Workers : /\ fwd[w].res = "ok" /\ Len(fwd[w].ids) >= 2
                       /\ fwdOrder[wsess[w].name] = fwd[w].ids

\* C6: the events of a batch sent to a client are the events that were given
\* to Trial for the entries of the batch, field by field.
C6_RoundTrip ==
    \A w \in Workers : fwd[w].res \in {"pending", "ok"} =>
        \A k \in 1..Len(fwd[w].ids) : fwd[w].items[k] = injected[fwd[w].ids[k]]

\* a worker sends no entry that a client has already received
NoReForward ==
    \A w \in Workers : fwd[w].res = "pending" => Range(fwd[w].ids) \cap Forwarded = {}
\* the log of "alice" is empty and every entry appended has been delivered
Drained == stream["alice"] = <<>> /\ Range(fwdOrder["alice"]) = 1..(nextId - 1)

\* C5: entries are injected for the offline "alice", then session 1 declares
\* "alice"; with no fault and the session connected, every entry is delivered
\* to the session, none twice, every one is deleted and the log ends empty.
C5_Drain == [](NoReForward) /\ ((identity[1] = "alice") ~> Drained)

\* C5 witness: DrainN entries (more than one batch) were drained
C5_Witness == Drained /\ nextId - 1 = DrainN /\ identity[1] = "alice"

\* C7: a worker whose send failed stops in its next step and that step
\* deletes nothing; a stopped worker stays stopped and sends nothing more; the
\* entries of the failed batch are in the log unless a client has received
\* them from another worker.
C7_ForwardFailureStops ==
    [][\A w \in Workers :
          /\ (wstate[w] = "waiting" /\ fwd[w].res = "err" /\ wstate'[w] # "waiting")
                => (wstate'[w] = "stopped" /\ stream' = stream)
          /\ wstate[w] = "stopped" => (wstate'[w] = "stopped" /\ fwd'[w] = fwd[w])
          /\ fwd'[w].res = "err" => Range(fwd'[w].ids) \subseteq InLog' \cup Forwarded'
      ]_vars

\* C7 witness: a worker stopped on a failed send, and a later worker for the
\* identity has delivered the entries of that batch
C7_Witness ==
    \E w1, w2 \in Workers :
        /\ wstate[w1] = "stopped" /\ fwd[w1].res = "err"
        /\ w1 < w2 /\ Live(w2) /\ Alive(wsess[w2].addr) /\ fwd[w2].res = "ok"
        /\ Range(fwd[w1].ids) \subseteq Range(fwd[w2].ids)

\* C8: once a session has stopped and nothing is on its way any more, no
\* worker that was started for that session is alive.
C8_Cancelled ==
    \A s \in Sessions : (sstate[s] = "stopped" /\ Quiet) =>
        ~\E w \in Workers : Live(w) /\ wsess[w].addr = s

SessionIds == Sessions \cup {InitialId}

\* C9: from every reachable state of the directory, handling Offline for an
\* id a second time changes nothing of what the first handling left (worker
\* table, presence, stop signals, workers), whatever store calls fail, and
\* Offline for an id that is not in the worker table changes nothing.
C9_OfflineIdempotent ==
    \A i \in SessionIds : \A f1, f2 \in OfflineFaults :
        LET once == OfflineHandle(Dir, i, f1) IN
        /\ OfflineHandle(once, i, f2) = once
        /\ i \notin DOMAIN sessions => once = Dir

\* C9 witness: a session that timed out sent Disconnect twice; the first has
\* been handled (its worker has the stop signal) and the second is next
C9_Witness ==
    \E s \in expired : \E w \in wmail :
        /\ wsess[w].id = s /\ s \notin DOMAIN sessions
        /\ dirQ # <<>> /\ Head(dirQ) = Disconnect(s)

\* C10: once the directory has handled the Disconnects of a session that the
\* heartbeat check stopped, the session is no longer listed in "online-users".
C10_Heartbeat ==
    \A s \in expired :
        (redisAlive /\ \A k \in 1..Len(dirQ) : dirQ[k] # Disconnect(s)) =>
            s \notin DOMAIN onlineUsers

\* a step in which the directory has handled a Trial
TrialStep == reply' # reply \/ nextId' # nextId
\* the ids of a log, in log order
IdSeq(log) == [k \in 1..Len(log) |-> log[k].id]
\* the ids appended for receiver n when the appends at the positions ok of
\* receivers succeed and the store assigns ids from first on
AppendedIds(receivers, ok, first, n) ==
    LET at == [p \in 1..Len(receivers) |->
                  [pos |-> p, id |-> first + Cardinality({q \in ok : q < p})]]
    IN  IdSeq(SelectSeq(at, LAMBDA e : e.pos \in ok /\ receivers[e.pos] = n))

\* C11: a Trial with a well-formed message returns to its caller; for some
\* set of recipients (those whose append succeeded) it has appended one entry
\* to the log of each of them, online or not, in recipient order, nothing to
\* any other log, and the list it returns holds exactly the ids of these
\* entries in recipient order.
C11_InjectResult ==
    [][(TrialStep /\ reply'.json) =>
          /\ reply'.returned
          /\ \E ok \in SUBSET (1..Len(reply'.receivers)) :
                /\ reply'.events = [k \in 1..Cardinality(ok) |-> nextId + k - 1]
                /\ \A n \in Names :
                      IdSeq(stream'[n]) =
                          IdSeq(stream[n]) \o AppendedIds(reply'.receivers, ok, nextId, n)
      ]_vars

\* C12: the directory is never lost: it stays alive whatever store call
\* fails, and every Trial it was given has returned a result.
C12_DirectoryStaysAlive ==
    /\ redisAlive
    /\ reply # NoReply => reply.returned

\* C19: a Trial whose message does not decode returns the empty list and
\* leaves every log, the worker table and the presence entries as they were.
C19_UndecodableInject ==
    [][(TrialStep /\ ~reply'.json) =>
          /\ reply'.returned /\ reply'.events = <<>>
          /\ stream' = stream /\ nextId' = nextId
          /\ sessions' = sessions /\ onlineUsers' = onlineUsers /\ wstate' = wstate
      ]_vars

\* the log that worker w polls
Log(w) == stream[wsess[w].name]
\* w has a batch whose send was accepted
Accepted(w) == wstate[w] = "waiting" /\ fwd[w].res = "ok"

\* C15: a worker stops only on a failed send or on a stop signal, never on a
\* store error: the step that follows an accepted send leaves the worker
\* polling whether its xdel succeeds or fails, and it either deletes the
\* batch or leaves the log as it is.
C15_StoreErrorKeepsPolling ==
    [][\A w \in Workers :
          /\ (Live(w) /\ wstate'[w] = "stopped")
                => \/ wstate[w] = "waiting" /\ fwd[w].res = "err"
                   \/ wstate[w] = "running" /\ w \in wmail
          /\ (Accepted(w) /\ wstate'[w] # "waiting")
                => /\ wstate'[w] = "running"
                   /\ stream' \in {stream,
                                   [stream EXCEPT ![wsess[w].name] = XDel(@, fwd[w].ids)]}
      ]_vars

\* C15 witness: after a failed xdel the only worker has read the delivered
\* entries again (they are still in the log) and sent them once more
C15_Witness ==
    \E w \in Workers :
        /\ nworkers = 1 /\ wstate[w] = "waiting" /\ fwd[w].res = "pending"
        /\ fwd[w].ids # <<>> /\ Range(fwd[w].ids) \subseteq Forwarded
        /\ Range(fwd[w].ids) \subseteq Ids(Log(w))

Sent == {dirQ'[k] : k \in (Len(dirQ) + 1)..Len(dirQ')}
\* the PatientRequests session s has sent
PatientsOf(s) == {p \in patients : p.addr = s}
\* session s sends nothing in this step and keeps its fields
Silent(s) ==
    /\ \A m \in Sent : m.addr # s /\ m.id # s
    /\ PatientsOf(s)' = PatientsOf(s)
    /\ id'[s] = id[s] /\ identity'[s] = identity[s] /\ hb'[s] = hb[s]

\* C13: the step in which a registered session stops puts Disconnect with
\* the session's own id into the directory's mailbox (if the directory is
\* there to take it) and nothing else; a stopped session stays stopped,
\* sends nothing and writes nothing to its client.
C13_EveryStopDisconnects ==
    [][\A s \in Sessions :
          /\ (sstate[s] \in {"registered", "listing"} /\ sstate'[s] = "stopped" /\ redisAlive)
                => /\ id[s] = s
                   /\ Sent # {} /\ Sent = {Disconnect(s)}
          /\ sstate[s] = "stopped"
                => sstate'[s] = "stopped" /\ Silent(s) /\ out'[s] = out[s]
      ]_vars

\* C13 witness: a session with a worker was stopped by the heartbeat check;
\* its two Disconnects are in the directory's mailbox
C13_Witness ==
    \E s \in expired : \E k \in 1..Len(dirQ) :
        /\ s \in DOMAIN sessions /\ sstate[s] = "stopped"
        /\ k < Len(dirQ) /\ dirQ[k] = Disconnect(s) /\ dirQ[k + 1] = Disconnect(s)

Notices == {<<NameRequired>>, <<UnknownCommand>>}

\* C14: for a session that takes frames, every malformed text frame yields
\* exactly one notice for the client, no message for the directory, no
\* PatientRequest, no wait, and the identity it had; and the step that writes
\* a notice leaves the session connected with its id, identity and last
\* heartbeat, and the directory's mailbox as it was.
C14_MalformedFrame ==
    /\ [](\A s \in Sessions : Ready(s) => \A m \in Malformed :
            LET r == Text(Sess(s), m) IN
            /\ r.client \in Notices /\ r.dir = <<>> /\ r.patient = {}
            /\ r.identity = identity[s] /\ ~r.wait /\ ~r.panic)
    /\ [][\A s \in Sessions : (out'[s] # out[s] /\ out'[s] \in Notices) =>
            /\ Ready(s) /\ sstate'[s] = sstate[s]
            /\ Silent(s) /\ dirQ' = dirQ /\ patients' = patients
         ]_vars

\* C14 witness: a session with no identity was told that a name is required
\* and is still connected with no identity
C14_Witness ==
    \E s \in Sessions : Ready(s) /\ identity[s] = None /\ out[s] = <<NameRequired>>

\* C17: a session whose ListNames request is outstanding sends nothing and
\* keeps its fields; it writes nothing to its client until the answer, and
\* with the answer it writes the returned identities, one text each, in the
\* same step in which it serves its events again.
C17_ListPauses ==
    [][\A s \in Sessions : sstate[s] = "listing" =>
          /\ Silent(s)
          /\ sstate'[s] \in {"listing", "registered"}
          /\ sstate'[s] = "listing" => out'[s] = out[s]
          /\ sstate'[s] = "registered" => out'[s] \in ListNames \cup {<<>>}
      ]_vars

\* C17 witness: two identities were online and the session has written both
\* to its client
C17_Witness ==
    \E s \in Sessions : Ready(s) /\ Len(out[s]) = 2 /\ Range(out[s]) = Names

\* C20: every identity binding and every PatientRequest carries the id that
\* Connect gave the sending session; a session whose Connect has not resolved
\* has no identity, has written nothing and sends neither; a session that has
\* stopped (its Connect failed, or later) sends neither.
C20_NothingBeforeConnect ==
    /\ [](/\ \A k \in 1..Len(dirQ) : dirQ[k].type = "IdentitySession" =>
                dirQ[k].id \in Sessions /\ dirQ[k].id = dirQ[k].addr
          /\ \A p \in patients : p.id \in Sessions /\ p.id = p.addr
          /\ \A w \in Workers : Live(w) => wsess[w].id = wsess[w].addr
          /\ \A s \in Sessions : sstate[s] = "connecting" =>
                identity[s] = None /\ out[s] = <<>> /\ PatientsOf(s) = {})
    /\ [][\A s \in Sessions : sstate[s] \in {"connecting", "stopped"} =>
            /\ \A m \in Sent : m.type = "IdentitySession" => m.addr # s
            /\ PatientsOf(s)' = PatientsOf(s)
         ]_vars

\* C20 witness: the Connect of one session failed and it stopped having sent
\* only its Disconnect, while another session has sent a binding and a
\* PatientRequest under its assigned id
C20_Witness ==
    \E s, s2 \in Sessions :
        /\ sstate[s] = "stopped" /\ PatientsOf(s) = {}
        /\ \E k \in 1..Len(dirQ) : dirQ[k] = Disconnect(InitialId)
        /\ \E k \in 1..Len(dirQ) : dirQ[k].type = "IdentitySession" /\ dirQ[k].id = s2
        /\ \E p \in patients : p.id = s2

====
